---- MODULE Spec2Model ----
(***************************************************************************)
(* A model of the DNS client transport core of client.go: the client's     *)
(* Exchange with the single-inflight coordinator, the per-exchange         *)
(* connection, and the framed Read / Write of a Conn.                      *)
(***************************************************************************)
EXTENDS Integers, Sequences, FiniteSets, TLC

\* ------------------------------------------------------------------ bounds
NumCallers == 2
MaxCalls == 3
MaxOps == 2
MaxCap == 4
MaxPayload == 4

\* --------------------------------------------------------------- constants
NoErr == "nil"
ErrSecret == "ErrSecret"
ErrSig == "ErrSig"
ErrDial == "dial"
ErrWrite == "write"
ErrTimeout == "timeout"
ErrUnpack == "unpack"
ErrShortRead == "ErrShortRead"
ErrShortBuffer == "ErrShortBuffer"
ErrConnEmpty == "ErrConnEmpty"

Nil == 0

\* time.Duration values: the zero duration and a measured time.Since(co.t).
ZeroRtt == "0s"
Elapsed == "since"

Callers == 1..NumCallers

\* The sizes of the receive buffers ReadMsg allocates.
MinMsgSize == 512
MaxMsgSize == 65535

\* The symbolic names of the query types and classes the model uses.
TypeToString == [t \in {1, 28} |-> IF t = 1 THEN "A" ELSE "AAAA"]

ClassToString == [c \in {1, 3} |-> IF c = 1 THEN "IN" ELSE "CH"]

\* The first questions of the queries: two names of type A, and one name
\* with two types that have no symbolic name.
Questions == {[name |-> "a.", qtype |-> 1, qclass |-> 1],
              [name |-> "b.", qtype |-> 1, qclass |-> 1],
              [name |-> "a.", qtype |-> 65280, qclass |-> 1],
              [name |-> "a.", qtype |-> 65281, qclass |-> 1]}

Addrs == {"s1", "s2"}

Queries == {q \in [question : Questions, addr : Addrs] :
               q.question = [name |-> "a.", qtype |-> 1, qclass |-> 1] \/ q.addr = "s1"}

\* The key Client.Exchange hands to group.Do: Name + type + class, "nop" for
\* a type or class without a symbolic name.
QueryKey(q) ==
    LET t  == IF q.qtype \in DOMAIN TypeToString THEN TypeToString[q.qtype] ELSE "nop"
        cl == IF q.qclass \in DOMAIN ClassToString THEN ClassToString[q.qclass] ELSE "nop"
    IN  q.name \o t \o cl

KeySet == {QueryKey(q) : q \in Questions}

VARIABLES
    clientNil,      \* the *Client the callers use is nil
    SingleInflight, \* Client.SingleInflight
    pc,             \* per caller: where it is in Client.Exchange
    query,          \* per caller: the (m, a) of its current call
    gm,             \* group.m: key -> call (0: no entry)
    calls,          \* the call objects: val, rtt, err, dups, done
    msgs,           \* the heap of *Msg instances: instance -> content
    res,            \* per caller: the (r, rtt, err, shared) it holds
    conn,           \* per caller: the transport of its exchange: how often
                    \*   it was dialed with success and how often closed
    joined,         \* per caller: the execution its call runs or waits for
    ran,            \* per caller: executions of the work this call started
    snap,           \* per caller: the content of r when Exchange returned
    mutated,        \* per caller: it changed its returned message
    ninv,           \* Exchange calls made so far
    quiet           \* per caller: no other call for its key was pending
                    \*   when it began, nor began since

\* One Conn and the operation running on it.
VARIABLES
    coConn,           \* co.Conn: "tcp", "udp" or "nil"
    coUDPSize,        \* co.UDPSize
    coTsigSecret,     \* the owner names co.TsigSecret has a secret for
    coRtt,            \* co.rtt
    coT,              \* co.t: the clock value of the last WriteMsg, 0 if none
    coTsigRequestMAC, \* co.tsigRequestMAC
    op,               \* the operation called on co
    arg,              \* its argument: the payload, the message, the buffer size
    cpc,              \* where the operation is
    wbuf,             \* Write: the bytes handed to the transport
    wi,               \* Write: i, the bytes written so far
    wire,             \* the bytes the transport accepted during the operation
    rcap,             \* Read: len(p)
    rbuf,             \* Read: the part of p written so far (the rest is zero)
    rl,               \* Read: l, the length prefix
    ri,               \* Read: i, the payload bytes read so far
    frame,            \* what the peer sent: the frame or datagram
    stream,           \* the part of it the transport has not delivered yet
    ret,              \* what the operation returned: n, err, m
    signed,           \* the operation called TsigGenerate
    tErr,             \* a transport call of the operation failed
    old,              \* co.t and co.tsigRequestMAC before the operation
    clock             \* the operations started so far

coVars == <<coConn, coUDPSize, coTsigSecret, coRtt, coT, coTsigRequestMAC, op, arg,
            cpc, wbuf, wi, wire, rcap, rbuf, rl, ri, frame, stream, ret, signed,
            tErr, old, clock>>

sfVars == <<clientNil, SingleInflight, pc, query, gm, calls, msgs, res, conn, joined, ran,
            snap, mutated, ninv, quiet>>

vars == <<sfVars, coVars>>

NoQuery == [question |-> [name |-> "", qtype |-> 0, qclass |-> 0], addr |-> ""]

NoCall == [val |-> Nil, rtt |-> ZeroRtt, err |-> NoErr, dups |-> 0, done |-> FALSE,
           key |-> "", addr |-> ""]

NoMsg == [exec |-> 0, addr |-> "", dirty |-> FALSE]

NoConn == [dialed |-> 0, closed |-> 0]

NoRes == [r |-> Nil, rtt |-> ZeroRtt, err |-> NoErr, shared |-> FALSE]

CallIds == 1..NumCallers

MsgIds == 1..(2 * NumCallers)

Active(c) == pc[c] \notin {"idle", "returned"}

KeyOf(c) == QueryKey(query[c].question)

Min(S) == CHOOSE x \in S : \A y \in S : x <= y

\* new(call), new(Msg): an object no caller, entry or call refers to.
NewCall(c) ==
    Min({e \in CallIds : /\ \A d \in Callers \ {c} : joined[d] # e
                         /\ \A k \in KeySet : gm[k] # e})

NewMsg ==
    Min({i \in MsgIds : /\ \A d \in Callers : res[d].r # i
                        /\ \A e \in CallIds : calls[e].val # i})

\* The call objects and messages still reachable once caller c lets go of
\* what its previous call left it: the others are garbage.
LiveCalls(c) ==
    [e \in CallIds |->
        IF \/ \E d \in Callers \ {c} : joined[d] = e
           \/ \E k \in KeySet : gm[k] = e
        THEN calls[e] ELSE NoCall]

LiveMsgs(c) ==
    [i \in MsgIds |->
        IF \/ \E d \in Callers \ {c} : res[d].r = i
           \/ \E e \in CallIds : LiveCalls(c)[e].val = i
        THEN msgs[i] ELSE NoMsg]

\* ReadMsg as it would be if a message that fails verification were dropped.
ReadMsgTailDroppingUnverified(n, rerr, unpackErr, tsig, secretKnown, verifyErr, since, oldrtt) ==
    IF rerr # NoErr /\ n = 0
    THEN [m |-> FALSE, rtt |-> oldrtt, err |-> rerr, decoded |-> FALSE, verified |-> FALSE]
    ELSE IF unpackErr # NoErr
    THEN [m |-> FALSE, rtt |-> oldrtt, err |-> unpackErr, decoded |-> FALSE, verified |-> FALSE]
    ELSE IF tsig
    THEN IF ~secretKnown
         THEN [m |-> TRUE, rtt |-> since, err |-> ErrSecret, decoded |-> TRUE, verified |-> FALSE]
         ELSE [m |-> verifyErr = NoErr, rtt |-> since, err |-> verifyErr, decoded |-> TRUE,
               verified |-> TRUE]
    ELSE [m |-> TRUE, rtt |-> since, err |-> rerr, decoded |-> TRUE, verified |-> FALSE]

\* ----------------------------------------------------------- Conn.ReadMsg
\* What ReadMsg returns once co.Read has returned (n, rerr): whether a message
\* is returned, the connection's rtt afterwards and the error.  unpackErr is
\* the result of m.Unpack, tsig whether the message carries a TSIG record,
\* secretKnown whether its owner name is in co.TsigSecret, verifyErr the
\* result of TsigVerify, since the value of time.Since(co.t).
ReadMsgTail(n, rerr, unpackErr, tsig, secretKnown, verifyErr, since, oldrtt) ==
    IF rerr # NoErr /\ n = 0
    THEN [m |-> FALSE, rtt |-> oldrtt, err |-> rerr, decoded |-> FALSE, verified |-> FALSE]
    ELSE IF unpackErr # NoErr
    THEN [m |-> FALSE, rtt |-> oldrtt, err |-> unpackErr, decoded |-> FALSE, verified |-> FALSE]
    ELSE IF tsig
    THEN IF ~secretKnown
         THEN [m |-> TRUE, rtt |-> since, err |-> ErrSecret, decoded |-> TRUE, verified |-> FALSE]
         ELSE [m |-> TRUE, rtt |-> since, err |-> verifyErr, decoded |-> TRUE, verified |-> TRUE]
    ELSE [m |-> TRUE, rtt |-> since, err |-> rerr, decoded |-> TRUE, verified |-> FALSE]

\* ------------------------------------------------------- Client.Exchange
\* What entering Exchange with (m, a) does to the caller's own state, and to
\* the calls of the other callers that were alone with the same key.
Enter(c, q) ==
    /\ pc[c] \in {"idle", "returned"}
    /\ \A d \in Callers : pc[d] # "panic"
    /\ ninv < MaxCalls
    /\ ninv' = ninv + 1
    /\ query' = [query EXCEPT ![c] = q]
    /\ res' = [res EXCEPT ![c] = NoRes]
    /\ snap' = [snap EXCEPT ![c] = NoMsg]
    /\ mutated' = [mutated EXCEPT ![c] = FALSE]
    /\ conn' = [conn EXCEPT ![c] = NoConn]
    /\ quiet' = [d \in Callers |->
                   IF d = c
                   THEN \A o \in Callers \ {c} :
                            Active(o) => KeyOf(o) # QueryKey(q.question)
                   ELSE quiet[d] /\ ~(Active(d) /\ KeyOf(d) = QueryKey(q.question))]
    /\ msgs' = LiveMsgs(c)

\* Without SingleInflight Exchange is c.exchange(m, a).
CallDirect(c, q) ==
    /\ Enter(c, q)
    /\ calls' = [LiveCalls(c) EXCEPT ![NewCall(c)] =
                   [NoCall EXCEPT !.key = QueryKey(q.question), !.addr = q.addr]]
    /\ joined' = [joined EXCEPT ![c] = NewCall(c)]
    /\ ran' = [ran EXCEPT ![c] = 1]
    /\ pc' = [pc EXCEPT ![c] = "dial"]
    /\ UNCHANGED <<coVars, clientNil, SingleInflight, gm>>

\* Call as it would be if Exchange did not look at SingleInflight.
CallIgnoringFlag(c, q) == CallDirect(c, q)

\* Exchange on a nil *Client: reading c.SingleInflight dereferences the
\* nil pointer and the program panics.
CallOnNil(c, q) ==
    /\ Enter(c, q)
    /\ calls' = LiveCalls(c)
    /\ joined' = [joined EXCEPT ![c] = 0]
    /\ ran' = [ran EXCEPT ![c] = 0]
    /\ pc' = [pc EXCEPT ![c] = "panic"]
    /\ UNCHANGED <<coVars, clientNil, SingleInflight, gm>>

\* Exchange reads c.SingleInflight first; with SingleInflight it builds the
\* key and goes to group.Do.
Call(c, q) ==
    IF clientNil
    THEN CallOnNil(c, q)
    ELSE IF ~SingleInflight
    THEN CallDirect(c, q)
    ELSE /\ Enter(c, q)
         /\ calls' = LiveCalls(c)
         /\ joined' = [joined EXCEPT ![c] = 0]
         /\ ran' = [ran EXCEPT ![c] = 0]
         /\ pc' = [pc EXCEPT ![c] = "key"]
         /\ UNCHANGED <<coVars, clientNil, SingleInflight, gm>>

\* --------------------------------------------------------- singleflight.Do
\* Under the lock: a caller that finds an entry for its key counts itself as
\* a duplicate and waits; the first caller registers the call and runs fn.
DoEnter(c) ==
    /\ pc[c] = "key"
    /\ LET k == KeyOf(c) IN
       IF gm[k] # 0
       THEN /\ calls' = [calls EXCEPT ![gm[k]].dups = @ + 1]
            /\ joined' = [joined EXCEPT ![c] = gm[k]]
            /\ pc' = [pc EXCEPT ![c] = "wait"]
            /\ UNCHANGED <<gm, ran>>
       ELSE /\ calls' = [calls EXCEPT ![NewCall(c)] =
                           [NoCall EXCEPT !.key = k, !.addr = query[c].addr]]
            /\ gm' = [gm EXCEPT ![k] = NewCall(c)]
            /\ joined' = [joined EXCEPT ![c] = NewCall(c)]
            /\ ran' = [ran EXCEPT ![c] = 1]
            /\ pc' = [pc EXCEPT ![c] = "dial"]
    /\ UNCHANGED <<coVars, clientNil, SingleInflight, query, msgs, res, conn, snap, mutated, ninv, quiet>>

\* Whether Do reports the first caller's result as shared.
OriginalShared(call) == FALSE

\* DoDelete as it would be if Do left the entry in the registry.
DoDeleteKeepingEntry(c) ==
    /\ pc[c] = "del"
    /\ res' = [res EXCEPT ![c] =
                 [r |-> calls[joined[c]].val, rtt |-> calls[joined[c]].rtt,
                  err |-> calls[joined[c]].err,
                  shared |-> OriginalShared(calls[joined[c]])]]
    /\ pc' = [pc EXCEPT ![c] = "doret"]
    /\ UNCHANGED <<coVars, clientNil, SingleInflight, query, gm, calls, msgs, conn, joined, ran, snap,
                   mutated, ninv, quiet>>

\* The first caller removes the entry under the lock and returns the call's
\* result.
DoDelete(c) ==
    /\ pc[c] = "del"
    /\ gm' = [gm EXCEPT ![KeyOf(c)] = 0]
    /\ res' = [res EXCEPT ![c] =
                 [r |-> calls[joined[c]].val, rtt |-> calls[joined[c]].rtt,
                  err |-> calls[joined[c]].err,
                  shared |-> OriginalShared(calls[joined[c]])]]
    /\ pc' = [pc EXCEPT ![c] = "doret"]
    /\ UNCHANGED <<coVars, clientNil, SingleInflight, query, calls, msgs, conn, joined, ran, snap,
                   mutated, ninv, quiet>>

\* DoWake as it would be if c.wg.Wait() did not wait for the work.
DoWakeEarly(c) ==
    /\ pc[c] = "wait"
    /\ res' = [res EXCEPT ![c] =
                 [r |-> calls[joined[c]].val, rtt |-> calls[joined[c]].rtt,
                  err |-> calls[joined[c]].err, shared |-> TRUE]]
    /\ pc' = [pc EXCEPT ![c] = "doret"]
    /\ UNCHANGED <<coVars, clientNil, SingleInflight, query, gm, calls, msgs, conn, joined,
                   ran, snap, mutated, ninv, quiet>>

\* A duplicate caller leaves c.wg.Wait() once the work is done and returns
\* the call's result, shared.
DoWake(c) ==
    /\ pc[c] = "wait"
    /\ calls[joined[c]].done
    /\ res' = [res EXCEPT ![c] =
                 [r |-> calls[joined[c]].val, rtt |-> calls[joined[c]].rtt,
                  err |-> calls[joined[c]].err, shared |-> TRUE]]
    /\ pc' = [pc EXCEPT ![c] = "doret"]
    /\ UNCHANGED <<coVars, clientNil, SingleInflight, query, gm, calls, msgs, conn, joined, ran, snap,
                   mutated, ninv, quiet>>

\* ExchangeReturn as it would be if a shared error came back with a zero
\* round-trip time.
ExchangeReturnZeroRtt(c) ==
    /\ pc[c] = "doret"
    /\ IF res[c].err # NoErr
       THEN /\ snap' = [snap EXCEPT ![c] =
                          IF res[c].r = Nil THEN NoMsg ELSE msgs[res[c].r]]
            /\ res' = [res EXCEPT ![c].rtt = IF res[c].shared THEN ZeroRtt ELSE @]
            /\ UNCHANGED msgs
       ELSE IF ~res[c].shared
       THEN /\ snap' = [snap EXCEPT ![c] = msgs[res[c].r]]
            /\ UNCHANGED <<msgs, res>>
       ELSE /\ msgs' = [msgs EXCEPT ![NewMsg] = msgs[res[c].r]]
            /\ res' = [res EXCEPT ![c].r = NewMsg]
            /\ snap' = [snap EXCEPT ![c] = msgs[res[c].r]]
    /\ pc' = [pc EXCEPT ![c] = "returned"]
    /\ UNCHANGED <<coVars, clientNil, SingleInflight, query, gm, calls, conn, joined, ran, mutated,
                   ninv, quiet>>

\* The end of Client.Exchange after group.Do: an error returns r as it is,
\* a shared result is copied, the first caller's result is returned as it is.
ExchangeReturn(c) ==
    /\ pc[c] = "doret"
    /\ IF res[c].err # NoErr \/ ~res[c].shared
       THEN /\ snap' = [snap EXCEPT ![c] =
                          IF res[c].r = Nil THEN NoMsg ELSE msgs[res[c].r]]
            /\ UNCHANGED <<msgs, res>>
       ELSE /\ msgs' = [msgs EXCEPT ![NewMsg] = msgs[res[c].r]]
            /\ res' = [res EXCEPT ![c].r = NewMsg]
            /\ snap' = [snap EXCEPT ![c] = msgs[res[c].r]]
    /\ pc' = [pc EXCEPT ![c] = "returned"]
    /\ UNCHANGED <<coVars, clientNil, SingleInflight, query, gm, calls, conn, joined, ran, mutated,
                   ninv, quiet>>

\* ------------------------------------------------------- Client.exchange
\* Do, once fn has returned r to the first caller:
\* c.val, c.rtt, c.err = fn(); c.wg.Done().
DoDone(c, r) ==
    /\ calls' = [calls EXCEPT ![joined[c]].val = r.r,
                              ![joined[c]].rtt = r.rtt,
                              ![joined[c]].err = r.err,
                              ![joined[c]].done = TRUE]
    /\ pc' = [pc EXCEPT ![c] = "del"]

\* c.exchange returns result r, with the messages as in heap: to Do when it
\* ran as Do's fn, and as the result of Exchange without SingleInflight.
FnReturn(c, r, heap) ==
    /\ res' = [res EXCEPT ![c] = r]
    /\ msgs' = heap
    /\ IF SingleInflight
       THEN /\ DoDone(c, r)
            /\ UNCHANGED snap
       ELSE /\ snap' = [snap EXCEPT ![c] = IF r.r = Nil THEN NoMsg ELSE heap[r.r]]
            /\ pc' = [pc EXCEPT ![c] = "returned"]
            /\ UNCHANGED calls

\* net.DialTimeout: the connection, or (nil, 0, err).
ExDial(c) ==
    /\ pc[c] = "dial"
    /\ \/ /\ conn' = [conn EXCEPT ![c].dialed = @ + 1]
          /\ pc' = [pc EXCEPT ![c] = "write"]
          /\ UNCHANGED <<res, msgs, calls, snap>>
       \/ /\ FnReturn(c, [r |-> Nil, rtt |-> ZeroRtt, err |-> ErrDial,
                          shared |-> FALSE], msgs)
          /\ UNCHANGED conn
    /\ UNCHANGED <<coVars, clientNil, SingleInflight, query, gm, joined, ran, mutated, ninv, quiet>>

\* ExWriteMsg as it would be if a write error returned without the close.
ExWriteMsgLeavingOpen(c) ==
    /\ pc[c] = "write"
    /\ \/ /\ pc' = [pc EXCEPT ![c] = "read"]
          /\ UNCHANGED <<res, msgs, calls, snap, conn>>
       \/ /\ FnReturn(c, [r |-> Nil, rtt |-> ZeroRtt, err |-> ErrWrite,
                          shared |-> FALSE], msgs)
          /\ UNCHANGED conn
    /\ UNCHANGED <<coVars, clientNil, SingleInflight, query, gm, joined, ran, mutated, ninv, quiet>>

\* co.WriteMsg(m): on an error the exchange returns (nil, 0, err) and the
\* deferred co.Close() runs.
ExWriteMsg(c) ==
    /\ pc[c] = "write"
    /\ \/ /\ pc' = [pc EXCEPT ![c] = "read"]
          /\ UNCHANGED <<res, msgs, calls, snap, conn>>
       \/ /\ FnReturn(c, [r |-> Nil, rtt |-> ZeroRtt, err |-> ErrWrite,
                          shared |-> FALSE], msgs)
          /\ conn' = [conn EXCEPT ![c].closed = @ + 1]
    /\ UNCHANGED <<coVars, clientNil, SingleInflight, query, gm, joined, ran, mutated, ninv, quiet>>

\* r, err = co.ReadMsg(); return r, co.rtt, err, and the deferred co.Close().
\* The response either arrives whole or the read times out with nothing
\* read; it may carry a TSIG record of a known secret.
ExReadMsg(c) ==
    /\ pc[c] = "read"
    /\ \E rerr \in {NoErr, ErrTimeout}, uerr \in {NoErr, ErrUnpack}, tsig \in BOOLEAN,
          verifyErr \in {NoErr, ErrSig} :
          LET n   == IF rerr = NoErr THEN 1 ELSE 0
              out == ReadMsgTail(n, rerr, uerr, tsig, TRUE, verifyErr, Elapsed, ZeroRtt)
          IN  IF out.m
              THEN FnReturn(c, [r |-> NewMsg, rtt |-> out.rtt, err |-> out.err,
                                shared |-> FALSE],
                            [msgs EXCEPT ![NewMsg] =
                               [exec |-> joined[c], addr |-> query[c].addr,
                                dirty |-> FALSE]])
              ELSE FnReturn(c, [r |-> Nil, rtt |-> out.rtt, err |-> out.err,
                                shared |-> FALSE], msgs)
    /\ conn' = [conn EXCEPT ![c].closed = @ + 1]
    /\ UNCHANGED <<coVars, clientNil, SingleInflight, query, gm, joined, ran, mutated, ninv, quiet>>

\* ---------------------------------------------- the package's Exchange
\* Exchange(m, a) of the package: no Client, a datagram connection, no
\* secrets, and (r, err) returned.
PkgExchange(c, q) ==
    /\ Enter(c, q)
    /\ calls' = [LiveCalls(c) EXCEPT ![NewCall(c)] =
                   [NoCall EXCEPT !.key = QueryKey(q.question), !.addr = q.addr]]
    /\ joined' = [joined EXCEPT ![c] = NewCall(c)]
    /\ ran' = [ran EXCEPT ![c] = 1]
    /\ pc' = [pc EXCEPT ![c] = "pdial"]
    /\ UNCHANGED <<coVars, clientNil, SingleInflight, gm>>

\* Exchange returns (r, err) with the messages as in heap.
PkgReturn(c, r, err, heap) ==
    /\ res' = [res EXCEPT ![c] = [r |-> r, rtt |-> ZeroRtt, err |-> err,
                                  shared |-> FALSE]]
    /\ msgs' = heap
    /\ snap' = [snap EXCEPT ![c] = IF r = Nil THEN NoMsg ELSE heap[r]]
    /\ pc' = [pc EXCEPT ![c] = "returned"]

\* net.DialTimeout("udp", a, dnsTimeout): the connection, or (nil, err).
PkgDial(c) ==
    /\ pc[c] = "pdial"
    /\ \/ /\ conn' = [conn EXCEPT ![c].dialed = @ + 1]
          /\ pc' = [pc EXCEPT ![c] = "pwrite"]
          /\ UNCHANGED <<res, msgs, snap>>
       \/ /\ PkgReturn(c, Nil, ErrDial, msgs)
          /\ UNCHANGED conn
    /\ UNCHANGED <<coVars, clientNil, SingleInflight, query, gm, calls, joined, ran, mutated, ninv,
                   quiet>>

\* co.WriteMsg(m): on an error Exchange returns (nil, err) and the deferred
\* co.Close() runs.
PkgWriteMsg(c) ==
    /\ pc[c] = "pwrite"
    /\ \/ /\ pc' = [pc EXCEPT ![c] = "pread"]
          /\ UNCHANGED <<res, msgs, snap, conn>>
       \/ /\ PkgReturn(c, Nil, ErrWrite, msgs)
          /\ conn' = [conn EXCEPT ![c].closed = @ + 1]
    /\ UNCHANGED <<coVars, clientNil, SingleInflight, query, gm, calls, joined, ran, mutated, ninv,
                   quiet>>

\* r, err = co.ReadMsg(); return r, err, and the deferred co.Close().  The
\* connection has no secrets.
PkgReadMsg(c) ==
    /\ pc[c] = "pread"
    /\ \E rerr \in {NoErr, ErrTimeout}, uerr \in {NoErr, ErrUnpack}, tsig \in BOOLEAN :
          LET n   == IF rerr = NoErr THEN 1 ELSE 0
              out == ReadMsgTail(n, rerr, uerr, tsig, FALSE, NoErr, Elapsed, ZeroRtt)
          IN  /\ (rerr # NoErr => uerr = NoErr /\ ~tsig)
              /\ (uerr # NoErr => ~tsig)
              /\ IF out.m
                 THEN PkgReturn(c, NewMsg, out.err,
                                [msgs EXCEPT ![NewMsg] =
                                   [exec |-> joined[c], addr |-> query[c].addr,
                                    dirty |-> FALSE]])
                 ELSE PkgReturn(c, Nil, out.err, msgs)
    /\ conn' = [conn EXCEPT ![c].closed = @ + 1]
    /\ UNCHANGED <<coVars, clientNil, SingleInflight, query, gm, calls, joined, ran, mutated, ninv,
                   quiet>>

\* ------------------------------------------------------------ the callers
\* A caller that got a message back changes it.
Mutate(c) ==
    /\ pc[c] = "returned"
    /\ res[c].r # Nil
    /\ ~mutated[c]
    /\ msgs' = [msgs EXCEPT ![res[c].r].dirty = TRUE]
    /\ mutated' = [mutated EXCEPT ![c] = TRUE]
    /\ UNCHANGED <<coVars, clientNil, SingleInflight, pc, query, gm, calls, res, conn, joined, ran,
                   snap, ninv, quiet>>

\* ------------------------------------------------------------- the codec
\* Messages as far as the connection looks at them: an id and the owner name
\* of the TSIG record ("" without one).
NoMessage == [id |-> 0, tsig |-> ""]

OutMsgs == [id : {1}, tsig : {"", "k1.", "k2."}]

TsigCode(name) == CASE name = "" -> 0 [] name = "k1." -> 1 [] name = "k2." -> 2

TsigName(code) == CASE code = 0 -> "" [] code = 1 -> "k1." [] code = 2 -> "k2."

\* m.Pack(): the wire form of a message without TSIG.
Pack(m) == <<m.id, TsigCode(m.tsig)>>

\* TsigGenerate: the signed wire form and the MAC of the message.
TsigGenerate(m, requestMAC) == [out |-> <<m.id, TsigCode(m.tsig), 7>>, mac |-> "mac"]

\* m.Unpack(p): two bytes are a message without TSIG, three a message with
\* one, anything else does not decode.
Unpack(b) ==
    IF Len(b) = 2 /\ b[1] = 1 /\ b[2] = 0
    THEN [err |-> NoErr, msg |-> [id |-> b[1], tsig |-> ""]]
    ELSE IF Len(b) = 3 /\ b[1] = 1 /\ b[2] \in {1, 2}
    THEN [err |-> NoErr, msg |-> [id |-> b[1], tsig |-> TsigName(b[2])]]
    ELSE [err |-> ErrUnpack, msg |-> NoMessage]

\* TsigVerify over the raw bytes.
TsigVerify(b, requestMAC) == IF Len(b) = 3 /\ b[3] = 7 THEN NoErr ELSE ErrSig

\* What a peer may send: nothing, one byte, a message, a message signed for
\* k1. with a good and with a bad MAC, one signed for k2., four bytes that
\* are no message.
InPayloads == {<<>>, <<1>>, <<1, 0>>, <<1, 1, 7>>, <<1, 1, 8>>, <<1, 2, 7>>,
               <<9, 9, 9, 9>>}

\* The payloads handed to Write: the first bytes of 5, 6, 7, ...
OutPayloads == {[j \in 1..n |-> 4 + j] : n \in 0..MaxPayload}

\* Payloads at the edge of what the 2-byte length can say: 65535, 65536 and
\* 65537 zero bytes.
BigPayloads == {[j \in 1..n |-> 0] : n \in {65535, 65536, 65537}}

\* How many of n bytes a call of the transport may take: any number for a
\* short write, and for a long one a few, all but one, or all.
Chunks(n) ==
    IF n <= MaxPayload + 3 THEN 0..n ELSE (0..(MaxPayload + 3)) \cup {n - 1, n}

\* ------------------------------------------------------------ byte helpers
Uint16(n) == n % 65536

packUint16(i) == <<i \div 256, i % 256>>

unpackUint16(b) == b[1] * 256 + b[2]

Take(b, k) == SubSeq(b, 1, k)

Drop(b, k) == SubSeq(b, k + 1, Len(b))

\* p[:n] of a buffer whose written part is buf.
Slice(buf, n) == [j \in 1..n |-> IF j <= Len(buf) THEN buf[j] ELSE 0]

\* buf after bytes were stored from offset off on.
WriteAt(buf, off, bytes) ==
    [j \in 1..(IF off + Len(bytes) > Len(buf) THEN off + Len(bytes) ELSE Len(buf)) |->
        IF j > off /\ j <= off + Len(bytes) THEN bytes[j - off] ELSE buf[j]]

NoRet == [n |-> 0, err |-> NoErr, m |-> NoMessage, decoded |-> FALSE,
          verified |-> FALSE]

\* The Conn of the connection specification, at rest.
CoIdle ==
    /\ coConn = "udp" /\ coUDPSize = 0 /\ coTsigSecret = {}
    /\ coRtt = ZeroRtt /\ coT = 0 /\ coTsigRequestMAC = ""
    /\ op = "none" /\ arg = <<>> /\ cpc = "idle"
    /\ wbuf = <<>> /\ wi = 0 /\ wire = <<>>
    /\ rcap = 0 /\ rbuf = <<>> /\ rl = 0 /\ ri = 0
    /\ frame = <<>> /\ stream = <<>>
    /\ ret = NoRet
    /\ signed = FALSE /\ tErr = FALSE
    /\ old = [t |-> 0, mac |-> ""]
    /\ clock = 0

InitCommon ==
    /\ pc = [c \in Callers |-> "idle"]
    /\ query = [c \in Callers |-> NoQuery]
    /\ gm = [k \in KeySet |-> 0]
    /\ calls = [e \in CallIds |-> NoCall]
    /\ msgs = [i \in MsgIds |-> NoMsg]
    /\ res = [c \in Callers |-> NoRes]
    /\ conn = [c \in Callers |-> NoConn]
    /\ joined = [c \in Callers |-> 0]
    /\ ran = [c \in Callers |-> 0]
    /\ snap = [c \in Callers |-> NoMsg]
    /\ mutated = [c \in Callers |-> FALSE]
    /\ quiet = [c \in Callers |-> FALSE]
    /\ ninv = 0

\* A client with SingleInflight set, used by all callers.
Init ==
    /\ clientNil = FALSE
    /\ SingleInflight = TRUE
    /\ InitCommon
    /\ CoIdle

Next ==
    \E c \in Callers :
        \/ \E q \in Queries : Call(c, q)
        \/ DoEnter(c)
        \/ ExDial(c)
        \/ ExWriteMsg(c)
        \/ ExReadMsg(c)
        \/ DoDelete(c)
        \/ DoWake(c)
        \/ ExchangeReturn(c)
        \/ Mutate(c)

Spec == Init /\ [][Next]_vars

\* A client without SingleInflight, or no client at all.
InitDirect ==
    /\ clientNil \in BOOLEAN
    /\ SingleInflight = FALSE
    /\ InitCommon
    /\ CoIdle

NextDirect ==
    \E c \in Callers :
        \/ \E q \in Queries : Call(c, q)
        \/ ExDial(c)
        \/ ExWriteMsg(c)
        \/ ExReadMsg(c)
        \/ \E q \in Queries : PkgExchange(c, q)
        \/ PkgDial(c)
        \/ PkgWriteMsg(c)
        \/ PkgReadMsg(c)
        \/ Mutate(c)

\* The scheduler runs every goroutine that can run: a caller whose wait is
\* over leaves it, and a caller back from Do finishes Exchange.
Fairness ==
    \A c \in Callers : WF_vars(DoWake(c)) /\ WF_vars(ExchangeReturn(c))

SpecLive == Init /\ [][Next]_vars /\ Fairness

SpecDirect == InitDirect /\ [][NextDirect]_vars

\* ------------------------------------------------------------------- Conn
\* An operation is called on the connection: the state of the previous one
\* is dropped.
Begin(name, a, f) ==
    /\ cpc \in {"idle", "done"}
    /\ clock < MaxOps
    /\ clock' = clock + 1
    /\ op' = name
    /\ arg' = a
    /\ frame' = f
    /\ stream' = f
    /\ wire' = <<>>
    /\ tErr' = FALSE
    /\ old' = [t |-> coT, mac |-> coTsigRequestMAC]
    /\ UNCHANGED <<coConn, coUDPSize, coTsigSecret>>

\* ----------------------------------------------------------- Conn.Write
\* Write returns (n, err): to the caller of Write, or to WriteMsg, which
\* returns the error alone.
WriteReturn(who, n, err) ==
    /\ ret' = [NoRet EXCEPT !.n = IF who = "Write" THEN n ELSE 0, !.err = err]
    /\ cpc' = "done"

\* Write up to its first call of the transport: a stream payload shorter
\* than 2 bytes is refused, otherwise the 2-byte length is put in front.
BeginWrite(who, p) ==
    IF coConn = "tcp"
    THEN IF Len(p) < 2
         THEN /\ WriteReturn(who, 0, ErrShortBuffer)
              /\ wbuf' = <<>> /\ wi' = 0
         ELSE /\ wbuf' = packUint16(Uint16(Len(p))) \o p
              /\ wi' = 0
              /\ cpc' = "w1"
              /\ ret' = NoRet
    ELSE IF coConn = "udp"
    THEN /\ wbuf' = p
         /\ wi' = 0
         /\ cpc' = "wudp"
         /\ ret' = NoRet
    ELSE /\ WriteReturn(who, 0, "panic")
         /\ wbuf' = <<>> /\ wi' = 0

CallWrite(p) ==
    /\ Begin("Write", p, <<>>)
    /\ BeginWrite("Write", p)
    /\ signed' = FALSE
    /\ UNCHANGED <<coRtt, coT, coTsigRequestMAC, rcap, rbuf, rl, ri, sfVars>>

\* n, err := t.Write(p): the transport takes k bytes, all of them or fewer,
\* or fails having taken k.
TWriteFirst ==
    /\ cpc = "w1"
    /\ \E k \in Chunks(Len(wbuf)), err \in {NoErr, ErrWrite} :
          /\ (err = NoErr => k >= 1)
          /\ (err # NoErr => k < Len(wbuf))
          /\ wire' = wire \o Take(wbuf, k)
          /\ tErr' = (err # NoErr)
          /\ IF err # NoErr
             THEN WriteReturn(op, k, err) /\ wi' = k
             ELSE IF k < Len(wbuf)
             THEN wi' = k /\ cpc' = "w2" /\ UNCHANGED ret
             ELSE WriteReturn(op, k, NoErr) /\ wi' = k
    /\ UNCHANGED <<coConn, coUDPSize, coTsigSecret, coRtt, coT, coTsigRequestMAC,
                   op, arg, wbuf, rcap, rbuf, rl, ri, frame, stream, signed, old,
                   clock, sfVars>>

\* if i < len(p) { j, err := t.Write(p[i:len(p)]) ... i += j }; return i, nil
TWriteSecond ==
    /\ cpc = "w2"
    /\ \E j \in Chunks(Len(wbuf) - wi), err \in {NoErr, ErrWrite} :
          /\ (err = NoErr => j >= 1)
          /\ (err # NoErr => j < Len(wbuf) - wi)
          /\ wire' = wire \o Take(Drop(wbuf, wi), j)
          /\ tErr' = (err # NoErr)
          /\ IF err # NoErr
             THEN WriteReturn(op, wi, err) /\ UNCHANGED wi
             ELSE WriteReturn(op, wi + j, NoErr) /\ wi' = wi + j
    /\ UNCHANGED <<coConn, coUDPSize, coTsigSecret, coRtt, coT, coTsigRequestMAC,
                   op, arg, wbuf, rcap, rbuf, rl, ri, frame, stream, signed, old,
                   clock, sfVars>>

\* n, err = co.Conn.(*net.UDPConn).Write(p): the datagram goes out or not.
TWriteUDP ==
    /\ cpc = "wudp"
    /\ \/ /\ wire' = wire \o wbuf
          /\ WriteReturn(op, Len(wbuf), NoErr)
          /\ wi' = Len(wbuf)
          /\ tErr' = FALSE
       \/ /\ WriteReturn(op, 0, ErrWrite)
          /\ tErr' = TRUE
          /\ UNCHANGED <<wire, wi>>
    /\ UNCHANGED <<coConn, coUDPSize, coTsigSecret, coRtt, coT, coTsigRequestMAC,
                   op, arg, wbuf, rcap, rbuf, rl, ri, frame, stream, signed, old,
                   clock, sfVars>>

\* A WriteMsg that signs the message before it looks up the secret.
CallWriteMsgSigningFirst(m) ==
    /\ Begin("WriteMsg", m, <<>>)
    /\ UNCHANGED <<coRtt, rcap, rbuf, rl, ri, sfVars>>
    /\ IF m.tsig # "" /\ m.tsig \notin coTsigSecret
       THEN /\ ret' = [NoRet EXCEPT !.err = ErrSecret]
            /\ cpc' = "done"
            /\ signed' = TRUE
            /\ wbuf' = <<>> /\ wi' = 0
            /\ UNCHANGED <<coT, coTsigRequestMAC>>
       ELSE \E err \in {NoErr, "encode"} :
              LET gen == TsigGenerate(m, coTsigRequestMAC)
                  out == IF err # NoErr THEN <<>>
                         ELSE IF m.tsig # "" THEN gen.out ELSE Pack(m)
              IN  /\ signed' = (m.tsig # "")
                  /\ coTsigRequestMAC' =
                        IF m.tsig = "" THEN coTsigRequestMAC
                        ELSE IF err # NoErr THEN "" ELSE gen.mac
                  /\ IF err # NoErr
                     THEN /\ ret' = [NoRet EXCEPT !.err = err]
                          /\ cpc' = "done"
                          /\ wbuf' = <<>> /\ wi' = 0
                          /\ UNCHANGED coT
                     ELSE /\ coT' = clock + 1
                          /\ BeginWrite("WriteMsg", out)

\* --------------------------------------------------------- Conn.WriteMsg
\* WriteMsg up to the first call of the transport: a TSIG record of an owner
\* without secret is refused; otherwise the message is signed and the MAC
\* kept, or packed; an error of either returns; then the time is taken and
\* Write is called.
CallWriteMsg(m) ==
    /\ Begin("WriteMsg", m, <<>>)
    /\ UNCHANGED <<coRtt, rcap, rbuf, rl, ri, sfVars>>
    /\ IF m.tsig # "" /\ m.tsig \notin coTsigSecret
       THEN /\ ret' = [NoRet EXCEPT !.err = ErrSecret]
            /\ cpc' = "done"
            /\ signed' = FALSE
            /\ wbuf' = <<>> /\ wi' = 0
            /\ UNCHANGED <<coT, coTsigRequestMAC>>
       ELSE \E err \in {NoErr, "encode"} :
              LET gen == TsigGenerate(m, coTsigRequestMAC)
                  out == IF err # NoErr THEN <<>>
                         ELSE IF m.tsig # "" THEN gen.out ELSE Pack(m)
              IN  /\ signed' = (m.tsig # "")
                  /\ coTsigRequestMAC' =
                        IF m.tsig = "" THEN coTsigRequestMAC
                        ELSE IF err # NoErr THEN "" ELSE gen.mac
                  /\ IF err # NoErr
                     THEN /\ ret' = [NoRet EXCEPT !.err = err]
                          /\ cpc' = "done"
                          /\ wbuf' = <<>> /\ wi' = 0
                          /\ UNCHANGED coT
                     ELSE /\ coT' = clock + 1
                          /\ BeginWrite("WriteMsg", out)

\* ------------------------------------------------------------ Conn.Read
\* Read returns (n, err) with buf in p: to the caller of Read, or to ReadMsg,
\* which cuts p to n bytes, decodes them and verifies a TSIG record.
ReadReturn(who, n, err, buf) ==
    /\ cpc' = "done"
    /\ rbuf' = buf
    /\ IF who = "Read"
       THEN /\ ret' = [NoRet EXCEPT !.n = n, !.err = err]
            /\ UNCHANGED coRtt
       ELSE LET p   == Slice(buf, n)
                u   == Unpack(p)
                out == ReadMsgTail(n, err, u.err, u.msg.tsig # "",
                                   u.msg.tsig \in coTsigSecret,
                                   TsigVerify(p, coTsigRequestMAC), Elapsed, coRtt)
            IN  /\ ret' = [n |-> n, err |-> out.err,
                           m |-> IF out.m THEN u.msg ELSE NoMessage,
                           decoded |-> out.decoded, verified |-> out.verified]
                /\ coRtt' = out.rtt

\* Read up to its first call of the transport.
BeginRead(who, cap) ==
    /\ rcap' = cap
    /\ rl' = 0
    /\ ri' = 0
    /\ IF coConn = "nil"
       THEN ReadReturn(who, 0, ErrConnEmpty, <<>>)
       ELSE IF cap < 2
       THEN ReadReturn(who, 0, ErrShortBuffer, <<>>)
       ELSE /\ cpc' = IF coConn = "tcp" THEN "rhdr" ELSE "rudp"
            /\ rbuf' = <<>>
            /\ ret' = NoRet
            /\ UNCHANGED coRtt

\* What the peer sent on this kind of connection: a frame on a stream, a
\* datagram otherwise.
Sent(payload) ==
    IF coConn = "tcp" THEN packUint16(Len(payload)) \o payload
    ELSE IF coConn = "udp" THEN payload ELSE <<>>

CallRead(cap, payload) ==
    /\ Begin("Read", cap, Sent(payload))
    /\ BeginRead("Read", cap)
    /\ signed' = FALSE
    /\ UNCHANGED <<coT, coTsigRequestMAC, wbuf, wi, sfVars>>

\* ReadMsg allocates its buffer and calls Read.
CallReadMsg(payload) ==
    /\ Begin("ReadMsg", 0, Sent(payload))
    /\ BeginRead("ReadMsg",
                 IF coConn = "tcp" THEN MaxMsgSize
                 ELSE IF coUDPSize >= 512 THEN coUDPSize ELSE MinMsgSize)
    /\ signed' = FALSE
    /\ UNCHANGED <<coT, coTsigRequestMAC, wbuf, wi, sfVars>>

\* n, err = t.Read(p[0:2]): the transport delivers one or two bytes, or
\* fails; anything but two bytes returns; then the length decides.
TReadHdr ==
    /\ cpc = "rhdr"
    /\ \E k \in 0..2 :
          /\ k <= Len(stream)
          /\ stream' = Drop(stream, k)
          /\ tErr' = (k = 0)
          /\ LET buf == WriteAt(rbuf, 0, Take(stream, k))
                 l   == unpackUint16(buf)
             IN  IF k = 0
                 THEN ReadReturn(op, 0, ErrTimeout, buf) /\ UNCHANGED rl
                 ELSE IF k # 2
                 THEN ReadReturn(op, k, NoErr, buf) /\ UNCHANGED rl
                 ELSE /\ rl' = l
                      /\ IF l = 0
                         THEN ReadReturn(op, 0, ErrShortRead, buf)
                         ELSE IF l > rcap
                         THEN ReadReturn(op, l, ErrShortBuffer, buf)
                         ELSE /\ cpc' = "rbody"
                              /\ rbuf' = buf
                              /\ UNCHANGED <<ret, coRtt>>
    /\ UNCHANGED <<coConn, coUDPSize, coTsigSecret, coT, coTsigRequestMAC, op, arg,
                   wbuf, wi, wire, rcap, ri, frame, signed, old, clock, sfVars>>

\* n, err = t.Read(p[:l]): some of the payload arrives, or the read fails,
\* with or without bytes transferred before the failure.
TReadBody ==
    /\ cpc = "rbody"
    /\ \E k \in 0..rl, err \in {NoErr, ErrTimeout} :
          /\ k <= Len(stream)
          /\ (err = NoErr => k >= 1)
          /\ stream' = Drop(stream, k)
          /\ tErr' = (err # NoErr)
          /\ LET buf == WriteAt(rbuf, 0, Take(stream, k))
             IN  IF err # NoErr
                 THEN ReadReturn(op, k, err, buf) /\ UNCHANGED ri
                 ELSE IF k < rl
                 THEN /\ ri' = k
                      /\ cpc' = "rloop"
                      /\ rbuf' = buf
                      /\ UNCHANGED <<ret, coRtt>>
                 ELSE ReadReturn(op, k, NoErr, buf) /\ ri' = k
    /\ UNCHANGED <<coConn, coUDPSize, coTsigSecret, coT, coTsigRequestMAC, op, arg,
                   wbuf, wi, wire, rcap, rl, frame, signed, old, clock, sfVars>>

\* for i < int(l) { j, err := t.Read(p[i:int(l)]) ... i += j }
TReadLoop ==
    /\ cpc = "rloop"
    /\ \E j \in 0..(rl - ri) :
          /\ j <= Len(stream)
          /\ stream' = Drop(stream, j)
          /\ tErr' = (j = 0)
          /\ LET buf == WriteAt(rbuf, ri, Take(stream, j))
             IN  IF j = 0
                 THEN ReadReturn(op, ri, ErrTimeout, buf) /\ UNCHANGED ri
                 ELSE IF ri + j < rl
                 THEN /\ ri' = ri + j
                      /\ rbuf' = buf
                      /\ UNCHANGED <<cpc, ret, coRtt>>
                 ELSE ReadReturn(op, ri + j, NoErr, buf) /\ ri' = ri + j
    /\ UNCHANGED <<coConn, coUDPSize, coTsigSecret, coT, coTsigRequestMAC, op, arg,
                   wbuf, wi, wire, rcap, rl, frame, signed, old, clock, sfVars>>

\* n, _, err = co.Conn.(*net.UDPConn).ReadFromUDP(p): one datagram, cut to
\* the buffer, or a failure.
TReadUDP ==
    /\ cpc = "rudp"
    /\ \/ LET n == IF Len(stream) > rcap THEN rcap ELSE Len(stream)
          IN  /\ ReadReturn(op, n, NoErr, Take(stream, n))
              /\ stream' = <<>>
              /\ tErr' = FALSE
       \/ /\ ReadReturn(op, 0, ErrTimeout, <<>>)
          /\ tErr' = TRUE
          /\ UNCHANGED stream
    /\ UNCHANGED <<coConn, coUDPSize, coTsigSecret, coT, coTsigRequestMAC, op, arg,
                   wbuf, wi, wire, rcap, rl, ri, frame, signed, old, clock, sfVars>>

\* A connection of either kind, or none, with or without the secret of k1.
InitConn ==
    /\ clientNil = FALSE
    /\ SingleInflight = FALSE
    /\ InitCommon
    /\ coConn \in {"tcp", "udp", "nil"}
    /\ coUDPSize \in {0, 4096}
    /\ (coConn # "udp" => coUDPSize = 0)
    /\ coTsigSecret \in {{}, {"k1."}}
    /\ coRtt = ZeroRtt /\ coT = 0 /\ coTsigRequestMAC = ""
    /\ op = "none" /\ arg = <<>> /\ cpc = "idle"
    /\ wbuf = <<>> /\ wi = 0 /\ wire = <<>>
    /\ rcap = 0 /\ rbuf = <<>> /\ rl = 0 /\ ri = 0
    /\ frame = <<>> /\ stream = <<>>
    /\ ret = NoRet
    /\ signed = FALSE /\ tErr = FALSE
    /\ old = [t |-> 0, mac |-> ""]
    /\ clock = 0

NextConn ==
    \/ \E p \in OutPayloads : CallWrite(p)
    \/ \E m \in OutMsgs : CallWriteMsg(m)
    \/ \E cap \in 0..MaxCap, f \in InPayloads : CallRead(cap, f)
    \/ \E f \in InPayloads : CallReadMsg(f)
    \/ TWriteFirst
    \/ TWriteSecond
    \/ TWriteUDP
    \/ TReadHdr
    \/ TReadBody
    \/ TReadLoop
    \/ TReadUDP

SpecConn == InitConn /\ [][NextConn]_vars

\* Writes on a stream, the long payloads included.
InitFrame == InitConn /\ coConn = "tcp"

NextFrame ==
    \/ \E p \in OutPayloads \cup BigPayloads : CallWrite(p)
    \/ TWriteFirst
    \/ TWriteSecond

SpecFrame == InitFrame /\ [][NextFrame]_vars

\* ------------------------------------------------------------- the claims
\* The callers whose execution of the work (dial, write, read) is in flight
\* for key k.
InFlight(k) == {c \in Callers : pc[c] \in {"dial", "write", "read"} /\ KeyOf(c) = k}

Started == {c \in Callers : ran[c] = 1}

Returned(c) == pc[c] = "returned"

\* C1 as stated: at most one execution of the work is in flight per key, and
\* when all N calls for a key overlap (all are inside Exchange at once), one
\* execution in total was started by them.
C1_AsStated ==
    \A k \in KeySet :
        /\ Cardinality(InFlight(k)) <= 1
        /\ (\A c \in Callers : Active(c) /\ KeyOf(c) = k) => Cardinality(Started) <= 1

\* C1 amended: at most one execution of the work is in flight per key at any
\* time; no call object is run by two callers; and when all N calls are
\* registered on the same call object (each entered Do while the first
\* caller's entry was in the registry), exactly one of them started an
\* execution.
C1_Dedup ==
    \A k \in KeySet :
        /\ Cardinality(InFlight(k)) <= 1
        /\ \A e \in CallIds :
              /\ Cardinality({c \in Started : joined[c] = e}) <= 1
              /\ (\A c \in Callers : Active(c) /\ KeyOf(c) = k /\ joined[c] = e)
                    => Cardinality(Started) = 1

\* C1 witness: all callers are inside Exchange for one key, registered on the
\* same call, one running the work and the others waiting for it.
C1_Witness ==
    \E e \in CallIds :
        /\ \A c \in Callers : Active(c) /\ joined[c] = e
        /\ \E c \in Callers : pc[c] \in {"dial", "write", "read"}
        /\ \E c \in Callers : pc[c] = "wait"

\* C2 as stated: a caller that returns from a successful exchange returns a
\* message equal by value to the one the work produced, and its message is
\* only ever changed by its own mutation.
C2_AsStated ==
    \A c \in Callers :
        (Returned(c) /\ res[c].err = NoErr /\ res[c].r # Nil) =>
            /\ snap[c] = [exec |-> joined[c], addr |-> calls[joined[c]].addr,
                          dirty |-> FALSE]
            /\ (msgs[res[c].r].dirty => mutated[c])

\* C3 as stated: the message instance a caller with a shared result returns
\* is returned to no other caller, also when the work returned it with an
\* error.
C3_AsStated ==
    \A c, d \in Callers :
        (c # d /\ Returned(c) /\ Returned(d) /\ res[c].shared /\ res[c].r # Nil)
            => res[d].r # res[c].r

\* C4: when the shared exchange ended with an error, every caller coalesced
\* onto it returns that error and that round-trip time, the first caller
\* having run the work once and the others not at all: no two callers of one
\* call ran the work.
C4_ErrorShared ==
    \A c \in Callers :
        (Returned(c) /\ joined[c] # 0 /\ calls[joined[c]].err # NoErr) =>
            /\ res[c].err = calls[joined[c]].err
            /\ res[c].rtt = calls[joined[c]].rtt
            /\ ran[c] = (IF res[c].shared THEN 0 ELSE 1)
            /\ \A d \in Callers \ {c} :
                  (Returned(d) /\ joined[d] = joined[c]) =>
                      /\ res[d].err = res[c].err
                      /\ res[d].rtt = res[c].rtt
                      /\ ran[c] + ran[d] <= 1

\* C4 witness: the first caller and a waiter have both returned from an
\* exchange that failed after a round-trip time was measured.
C4_Witness ==
    \E c, d \in Callers :
        /\ c # d /\ Returned(c) /\ Returned(d)
        /\ joined[c] # 0 /\ joined[d] = joined[c]
        /\ res[d].shared /\ ~res[c].shared
        /\ res[c].err = ErrSig /\ res[c].rtt = Elapsed

Advertised == unpackUint16(frame)

Payload == Drop(frame, 2)

\* A Read on a stream has returned and no call of the transport failed.
ReadDone == op = "Read" /\ coConn = "tcp" /\ cpc = "done" /\ ~tErr /\ rcap >= 2

\* C6 as stated: when Write on a stream returns without error for a payload
\* of 2..65535 bytes, the transport has accepted exactly the 2-byte big-endian
\* length followed by the whole payload, however it split the write.
C6_AsStated ==
    (op = "Write" /\ coConn = "tcp" /\ cpc = "done" /\ ret.err = NoErr
        /\ Len(arg) >= 2 /\ Len(arg) <= 65535)
    => wire = packUint16(Len(arg)) \o arg

\* C7 as stated: when Read on a stream has returned for a frame whose length
\* L is between 1 and the capacity of the buffer, it returned (L, nil) and the
\* first L bytes of the buffer are the payload, however the transport split
\* the delivery, the 2-byte length included.
C7_AsStated ==
    (ReadDone /\ Advertised >= 1 /\ Advertised <= rcap)
    => /\ ret.n = Advertised
       /\ ret.err = NoErr
       /\ Slice(rbuf, Advertised) = Payload

\* C8 as stated: when Read on a stream has returned for a frame whose length
\* L exceeds the capacity of the buffer, it returned (L, ShortBuffer) and
\* took none of the payload bytes from the transport.
C8_AsStated ==
    (ReadDone /\ Advertised > rcap)
    => /\ ret.n = Advertised
       /\ ret.err = ErrShortBuffer
       /\ stream = Payload

\* C9 as stated: when Read on a stream has returned for a frame of length 0
\* it returned (0, ShortRead), and when ReadMsg has returned for such a frame
\* it returned no message and the error ShortRead.
C9_AsStated ==
    (coConn = "tcp" /\ cpc = "done" /\ ~tErr /\ op \in {"Read", "ReadMsg"}
        /\ (op = "Read" => rcap >= 2) /\ Advertised = 0)
    => /\ ret.err = ErrShortRead
       /\ ret.m = NoMessage
       /\ (op = "Read" => ret.n = 0)

\* C10: a WriteMsg of a message whose TSIG owner has no secret returns
\* ErrSecret with nothing written to the transport and nothing signed; a
\* ReadMsg whose decoded message has a TSIG owner without secret returns
\* ErrSecret, and a ReadMsg returns ErrSecret only with the bytes read and
\* decoded and without the verification having run.
C10_UnknownSecret ==
    /\ (op = "WriteMsg" /\ cpc = "done" /\ arg.tsig # "" /\ arg.tsig \notin coTsigSecret)
        => (ret.err = ErrSecret /\ wire = <<>> /\ ~signed /\ wbuf = <<>>)
    /\ (op = "ReadMsg" /\ cpc = "done" /\ ret.decoded
            /\ ret.m.tsig # "" /\ ret.m.tsig \notin coTsigSecret)
        => (ret.err = ErrSecret /\ ~ret.verified)
    /\ (op = "ReadMsg" /\ cpc = "done" /\ ret.err = ErrSecret)
        => /\ ret.decoded /\ ~ret.verified
           /\ ret.n >= 1
           /\ Unpack(Slice(rbuf, ret.n)).msg = ret.m
           /\ ret.m.tsig # "" /\ ret.m.tsig \notin coTsigSecret

\* C10 witness: a WriteMsg of a message signed for k2. on a stream that holds
\* the secret of k1. alone has returned ErrSecret.
C10_Witness ==
    /\ op = "WriteMsg" /\ cpc = "done" /\ coConn = "tcp"
    /\ arg.tsig = "k2." /\ coTsigSecret = {"k1."}
    /\ ret.err = ErrSecret

\* ----------------------------------------------------- exchange claims
\* C11 as stated: a caller that returns from Exchange with an error returns a
\* zero round-trip time, whatever failed: the dial, the write, the read, the
\* decoding, the secret lookup or the verification of the response.
C11_AsStated ==
    \A c \in Callers :
        (Returned(c) /\ res[c].err # NoErr) => res[c].rtt = ZeroRtt

\* An exchange of caller c holds a transport: it is between the dial and the
\* return of exchange or of the package's Exchange.
InExchange(c) == pc[c] \in {"write", "read", "pwrite", "pread"}

\* C12: an exchange dials at most one transport and closes it exactly once
\* before it returns, whatever the path: while the exchange is between dial
\* and return its transport is open, in every other state each transport
\* dialed has been closed once, and a caller that ran no exchange of its own
\* has neither dialed nor closed one.
C12_ClosedOnce ==
    \A c \in Callers :
        /\ conn[c].dialed <= 1
        /\ conn[c].closed <= conn[c].dialed
        /\ InExchange(c) => conn[c] = [dialed |-> 1, closed |-> 0]
        /\ ~InExchange(c) => conn[c].closed = conn[c].dialed
        /\ ran[c] = 0 => conn[c] = NoConn

\* C12 witness: one caller has returned from an exchange that failed after
\* the dial, its transport closed once, while another caller's exchange of
\* the package holds its transport open.
C12_Witness ==
    \E c, d \in Callers :
        /\ c # d
        /\ Returned(c) /\ res[c].err \in {ErrWrite, ErrUnpack, ErrSig}
        /\ conn[c] = [dialed |-> 1, closed |-> 1]
        /\ pc[d] = "pread" /\ conn[d] = [dialed |-> 1, closed |-> 0]

\* C13: a ReadMsg that has returned returned a message exactly when the bytes
\* Read left in p[:n] decode; the message is the decoded one; bytes that do
\* not decode give no message and an error, the decoding error when there
\* were bytes; and a decoded message whose verification fails is returned
\* together with the verification error.
C13_MessageIffDecoded ==
    (op = "ReadMsg" /\ cpc = "done") =>
        LET p == Slice(rbuf, ret.n)
            u == Unpack(p)
        IN  /\ (ret.m # NoMessage) <=> (u.err = NoErr)
            /\ ret.decoded <=> (u.err = NoErr)
            /\ u.err = NoErr => ret.m = u.msg
            /\ u.err # NoErr => (ret.err # NoErr /\ (ret.n > 0 => ret.err = ErrUnpack))
            /\ (u.err = NoErr /\ u.msg.tsig \in coTsigSecret
                    /\ TsigVerify(p, coTsigRequestMAC) # NoErr)
                => (ret.err = ErrSig /\ ret.m = u.msg /\ ret.verified)

\* C13 witness: a ReadMsg has returned the message signed for k1., whose
\* secret the connection holds, together with the verification error.
C13_Witness ==
    /\ op = "ReadMsg" /\ cpc = "done"
    /\ coTsigSecret = {"k1."}
    /\ ret.m = [id |-> 1, tsig |-> "k1."]
    /\ ret.err = ErrSig

\* C14 as stated: no call of Exchange, on a nil Client included, reaches the
\* crash state; it goes on to the exchange and returns a result or an error.
C14_AsStated == \A c \in Callers : pc[c] # "panic"

\* C15: a caller holding a shared result got it from a call whose work was
\* done, and every caller blocked on a call whose work is done eventually
\* returns from Exchange.
C15_WaitersReturn ==
    /\ [](\A c \in Callers :
            (pc[c] \in {"doret", "returned"} /\ res[c].shared) => calls[joined[c]].done)
    /\ \A c \in Callers :
          (pc[c] = "wait" /\ calls[joined[c]].done) ~> Returned(c)

\* C15 witness: a caller is still blocked on a call whose work has completed
\* and whose first caller has already returned from Exchange.
C15_Witness ==
    \E c, d \in Callers :
        /\ pc[c] = "wait" /\ calls[joined[c]].done
        /\ d # c /\ joined[d] = joined[c] /\ Returned(d) /\ ran[d] = 1

\* C16 as stated: when WriteMsg on a connection with a transport has
\* returned an error for a message with a TSIG record and the transport
\* accepted no byte, co.tsigRequestMAC and co.t are what they were before the
\* call.
C16_AsStated ==
    (op = "WriteMsg" /\ cpc = "done" /\ coConn # "nil" /\ arg.tsig # ""
        /\ ret.err # NoErr /\ wire = <<>>)
    => (coTsigRequestMAC = old.mac /\ coT = old.t)

\* C17 as stated: when a transport call of the Read that ReadMsg made has
\* failed, ReadMsg has returned an error, also when bytes had been
\* transferred and decode to a message whose TSIG record verifies.
C17_AsStated ==
    (op = "ReadMsg" /\ cpc = "done" /\ tErr) => ret.err # NoErr

\* C18 as stated: a payload that Write on a stream did not refuse goes to the
\* transport behind a 2-byte length equal to the number of payload bytes, and
\* a payload of more than 65535 bytes is refused with ShortBuffer and nothing
\* of it is written.
C18_AsStated ==
    (op = "Write" /\ coConn = "tcp" /\ cpc \in {"w1", "w2", "done"}) =>
        /\ wbuf # <<>> => unpackUint16(wbuf) = Len(wbuf) - 2
        /\ Len(arg) > 65535 => (ret.err = ErrShortBuffer /\ wbuf = <<>> /\ wire = <<>>)

\* C19 as stated: the message a caller returns from Exchange was read from
\* the address the caller gave, and a caller waiting for another caller's
\* work gave the same address as that caller.
C19_AsStated ==
    \A c \in Callers :
        /\ (Returned(c) /\ res[c].r # Nil) => snap[c].addr = query[c].addr
        /\ pc[c] = "wait" => calls[joined[c]].addr = query[c].addr

\* C20 as stated: two callers whose queries have the same key asked for the
\* same name, type and class, and two callers on the same call (one running
\* it, the other waiting for it or holding its result) asked the same
\* question.
C20_AsStated ==
    \A c, d \in Callers :
        /\ (query[c] # NoQuery /\ query[d] # NoQuery /\ KeyOf(c) = KeyOf(d))
              => query[c].question = query[d].question
        /\ (joined[c] # 0 /\ joined[c] = joined[d])
              => query[c].question = query[d].question

====
